---- MODULE Spec2Model ----
(***************************************************************************)
(* StreamSpeech streaming control: the READ/WRITE policy of                *)
(* StreamSpeechASRAgent with its online feature extractor and reset, and   *)
(* the wait-k policy of DummyWaitkTextAgent.                               *)
(*                                                                         *)
(* Samples are identified by their position in states.source, so the       *)
(* source is modelled by its length; a feature frame is identified by the  *)
(* window of 16 kHz samples it is computed from.  Text is a sequence of    *)
(* one-character strings; the character U+2581 is written "u2581".         *)
(***************************************************************************)
EXTENDS Integers, Sequences, FiniteSets, TLC

\* ---------------------------------------------------------------- constants

SHIFT_SIZE == 10
WINDOW_SIZE == 25
ORG_SAMPLE_RATE == 48000
SAMPLE_RATE == 16000
DEFAULT_EOS == 2
waitk == 3

\* ------------------------------------------------------------------- bounds

\* Largest number of samples the harness delivers for one utterance.
MaxSamples == 1800
\* Largest number of decode turns of one utterance before its final turn.
MaxTurns == 2
\* Largest number of source tokens the harness delivers to the wait-k agent.
MaxWaitkSource == 5

\* Sizes of the chunks the harness delivers (samples).
ChunkSizes == {200, 480, 1200}
\* Values of --sample-rate the agent is constructed with.
SampleRates == {SAMPLE_RATE, ORG_SAMPLE_RATE}
\* Values of --window-size the agent is constructed with.
WindowSizes == {WINDOW_SIZE, 5}
\* Largest buffer handed to the extractor on its own (samples).
MaxFxSamples == 1700
\* Values of --shift-size, --window-size and --sample-rate the extractor on
\* its own is constructed with.
FxArgs ==
    [shift_size : {SHIFT_SIZE}, window_size : {WINDOW_SIZE, SHIFT_SIZE, 5},
     sample_rate : {8000, SAMPLE_RATE, 22050, ORG_SAMPLE_RATE}]
\* Sizes by which the buffer handed to the extractor grows (samples).
FxChunkSizes == {1, 240}

\* Values of --extra-output-dir: a directory, or None (the default).
ExtraOutputDirs == {"dir", "None"}

VARIABLES
    agent,          \* "unconstructed" | "ready" | "failed" (__init__ raised)
    args,           \* [shift_size, window_size, sample_rate, extra_output_dir]
                    \* given to __init__
    states,         \* self.states: [source, target, source_finished, target_finished]
    session,        \* the fields reset() assigns
    encoder_outs,   \* self.encoder_outs, empty until the first encode
    action,         \* what the last policy() call returned (or that it raised)
    call,           \* the last call made on the agent and how it ended: whether it
                    \* raised, whether reset() ran in it, and which
                    \* reset_incremental_states calls that reset() completed
    turn,           \* the last policy turn: frames extracted, text decoded
    hist,           \* per-utterance history of the turns
    wk_states,      \* DummyWaitkTextAgent.states
    wk_action,      \* what DummyWaitkTextAgent.policy() returned last
    fx              \* an OnlineFeatureExtractor on its own: [phase, args,
                    \* samples (length of the buffer), out (its last call)]

vars == <<agent, args, states, session, encoder_outs, action, call, turn,
          hist, wk_states, wk_action, fx>>

asr_vars == <<agent, args, states, session, encoder_outs, action, call,
              turn, hist>>

wk_vars == <<wk_states, wk_action>>

Unset == "unset"
None == "None"

\* ------------------------------------------------------------- arithmetic

Min(a, b) == IF a <= b THEN a ELSE b

Max(a, b) == IF a >= b THEN a ELSE b

\* Python's int() of the quotient a / b (b > 0): truncation towards zero.
PyInt(a, b) == IF a >= 0 THEN a \div b ELSE -((-a) \div b)

\* Python's math.floor of the quotient a / b (b > 0).
PyFloor(a, b) == a \div b

\* Python's samples[:e] on a list of n samples, as the half-open range of
\* positions kept: a negative e counts from the end.
PySlice(n, e) ==
    IF e >= 0 THEN [from |-> 0, to |-> Min(e, n)]
    ELSE [from |-> 0, to |-> Max(n + e, 0)]

\* ----------------------------------------------- OnlineFeatureExtractor

\* self.num_samples_per_shift = int(shift_size * sample_rate / 1000)
NumSamplesPerShift(a) == PyInt(a.shift_size * a.sample_rate, 1000)

\* self.num_samples_per_window = int(window_size * sample_rate / 1000)
NumSamplesPerWindow(a) == PyInt(a.window_size * a.sample_rate, 1000)

\* self.len_ms_to_samples(x) = x * sample_rate / 1000, a float: held here
\* as the numerator over 1000.
LenMsToSamples1000(a, x) == x * a.sample_rate

\* num_frames = math.floor((len(samples) - len_ms_to_samples(window - shift))
\*                         / num_samples_per_shift)
NumFrames(a, n) ==
    PyFloor(n * 1000 - LenMsToSamples1000(a, a.window_size - a.shift_size),
            NumSamplesPerShift(a) * 1000)

\* effective_num_samples = int(num_frames * len_ms_to_samples(shift)
\*                             + len_ms_to_samples(window - shift))
EffectiveNumSamples(a, n) ==
    PyInt(NumFrames(a, n) * LenMsToSamples1000(a, a.shift_size)
          + LenMsToSamples1000(a, a.window_size - a.shift_size), 1000)

\* Variant of KeptSamples: the last effective_num_samples samples are kept.
KeptSamplesTail(a, n) ==
    [from |-> n - PySlice(n, EffectiveNumSamples(a, n)).to, to |-> n]

\* samples = samples[:effective_num_samples]
KeptSamples(a, n) == PySlice(n, EffectiveNumSamples(a, n))

\* convert_waveform(samples, sr, to_sample_rate=16000): the kept range in
\* 16 kHz samples.  __call__ is always entered with sr = ORG_SAMPLE_RATE.
ConvertWaveform(r, sr) ==
    [from |-> (r.from * SAMPLE_RATE) \div sr, to |-> (r.to * SAMPLE_RATE) \div sr]

\* Frame length and frame shift of the filterbank at 16 kHz (25 ms, 10 ms).
FbankFrameLength == (WINDOW_SIZE * SAMPLE_RATE) \div 1000

FbankFrameShift == (SHIFT_SIZE * SAMPLE_RATE) \div 1000

\* extract_fbank_features(waveform, 16000): one frame per whole window.
FbankNumFrames(m) ==
    IF m < FbankFrameLength THEN 0
    ELSE 1 + (m - FbankFrameLength) \div FbankFrameShift

\* The frames of a 16 kHz range, each named by the window it is computed from.
Fbank(w) ==
    [i \in 1..FbankNumFrames(w.to - w.from) |->
        [lo |-> w.from + (i - 1) * FbankFrameShift,
         hi |-> w.from + (i - 1) * FbankFrameShift + FbankFrameLength]]

\* OnlineFeatureExtractor.__call__(states.source) on a source of n samples.
Extract(a, n) == Fbank(ConvertWaveform(KeptSamples(a, n), ORG_SAMPLE_RATE))

\* Variant of ExtractorAccepts: the assertion is left out.
ExtractorAcceptsAny(a) == TRUE

\* __init__: assert self.window_size >= self.shift_size
ExtractorAccepts(a) == a.window_size >= a.shift_size

\* Variant of ExtractorCall: the waveform is not resampled.
ExtractorCallAsIs(a, n) ==
    [called |-> TRUE,
     num_frames |-> NumFrames(a, n),
     effective_num_samples |-> EffectiveNumSamples(a, n),
     samples |-> KeptSamples(a, n),
     output |-> Fbank(KeptSamples(a, n))]

\* What one __call__ on a buffer of n samples computes: its locals
\* num_frames, effective_num_samples and samples (after line 82), and the
\* frames it returns.
ExtractorCall(a, n) ==
    [called |-> TRUE,
     num_frames |-> NumFrames(a, n),
     effective_num_samples |-> EffectiveNumSamples(a, n),
     samples |-> KeptSamples(a, n),
     output |-> Extract(a, n)]

\* No call made on the current buffer.
NoCall ==
    [called |-> FALSE, num_frames |-> 0, effective_num_samples |-> 0,
     samples |-> [from |-> 0, to |-> 0], output |-> <<>>]

\* No extractor constructed.
NoExtractor ==
    [phase |-> "unconstructed",
     args |-> [shift_size |-> 0, window_size |-> 0, sample_rate |-> 0],
     samples |-> 0, out |-> NoCall]

\* OnlineFeatureExtractor.__init__(args, cfg).
FxConstruct ==
    /\ fx.phase = "unconstructed"
    /\ \E a \in FxArgs :
         fx' = [fx EXCEPT !.phase = IF ExtractorAccepts(a) THEN "ready"
                                   ELSE "failed",
                          !.args = a]
    /\ UNCHANGED <<asr_vars, wk_vars>>

\* The caller's buffer grows by a chunk.
FxAppend ==
    /\ fx.phase = "ready"
    /\ \E chunk \in FxChunkSizes :
         /\ fx.samples + chunk <= MaxFxSamples
         /\ fx' = [fx EXCEPT !.samples = @ + chunk, !.out = NoCall]
    /\ UNCHANGED <<asr_vars, wk_vars>>

\* OnlineFeatureExtractor.__call__(samples) on the whole buffer.
FxCall ==
    /\ fx.phase = "ready"
    /\ ~fx.out.called
    /\ fx' = [fx EXCEPT !.out = ExtractorCall(fx.args, fx.samples)]
    /\ UNCHANGED <<asr_vars, wk_vars>>

NextExtractor == FxConstruct \/ FxAppend \/ FxCall

\* ------------------------------------------------------------------- text

\* self.dict["source_unigram"]: token index -> symbol.
Dict ==
    [c \in {DEFAULT_EOS, 4} |->
        CASE c = DEFAULT_EOS -> <<"<", "/", "s", ">">>
          [] c = 4 -> <<"u2581", "a">>]

\* The token sequences asr_ctc_generator.generate returns: sequences that
\* extend one another and sequences that revise one another.
DecoderResults ==
    {<<>>, <<4>>, <<4, 4>>, <<DEFAULT_EOS>>, <<4, DEFAULT_EOS>>}

\* tokens = [self.dict["source_unigram"][c] for c in tmp]
Tokens(tmp) == [i \in 1..Len(tmp) |-> Dict[tmp[i]]]

\* " ".join(tokens)
RECURSIVE Join(_)
Join(tokens) ==
    IF Len(tokens) = 0 THEN <<>>
    ELSE IF Len(tokens) = 1 THEN tokens[1]
    ELSE tokens[1] \o <<" ">> \o Join(Tail(tokens))

\* "".join(tokens)
RECURSIVE Concat(_)
Concat(tokens) ==
    IF Len(tokens) = 0 THEN <<>> ELSE tokens[1] \o Concat(Tail(tokens))

\* text.replace(old, new): the occurrences of old, left to right and not
\* overlapping, are replaced.
RECURSIVE Replace(_, _, _)
Replace(text, old, new) ==
    IF Len(text) < Len(old) THEN text
    ELSE IF SubSeq(text, 1, Len(old)) = old
         THEN new \o Replace(SubSeq(text, Len(old) + 1, Len(text)), old, new)
         ELSE <<text[1]>> \o Replace(Tail(text), old, new)

\* if len(text) > 0 and text[0] == " ": text = text[1:]
TrimLeadingSpace(text) ==
    IF Len(text) > 0 /\ text[1] = " " THEN Tail(text) ELSE text

\* Lines 409-416: the text of the loop body, from the joined symbols.
Normalize(tokens) ==
    LET t0 == Concat(tokens)
        t1 == Replace(t0, <<"_">>, <<" ">>)
        t2 == Replace(t1, <<"u2581">>, <<" ">>)
        t3 == Replace(t2, <<"<", "u", "n", "k", ">">>, <<" ">>)
        t4 == Replace(t3, <<"<", "s", ">">>, <<>>)
        t5 == Replace(t4, <<"<", "/", "s", ">">>, <<>>)
    IN  TrimLeadingSpace(t5)

\* text[n:]
PyDrop(text, n) == SubSeq(text, n + 1, Len(text))

IsPrefix(s, t) == Len(s) <= Len(t) /\ SubSeq(t, 1, Len(s)) = s

\* Variant of NewText: the whole text is emitted, not the new suffix.
NewTextWhole(text, asr_text) == text

\* new_text = text[len(self.asr_text):]
NewText(text, asr_text) == PyDrop(text, Len(asr_text))

\* ------------------------------------------------- AgentStates (harness)

NoStates ==
    [source |-> 0, target |-> 0, source_finished |-> FALSE,
     target_finished |-> FALSE]

\* AgentStates.reset(): empty buffers, both finished flags cleared.
AgentStatesReset(st) ==
    [source |-> 0, target |-> 0, source_finished |-> FALSE,
     target_finished |-> FALSE]

\* AgentStates.update_source(segment): the chunk is appended and the
\* segment's finished flag taken over.
UpdateSource(st, chunk, finished) ==
    [st EXCEPT !.source = @ + chunk, !.source_finished = finished]

\* AgentStates.update_target(segment): the finished flag is taken over and
\* an unfinished segment is appended to the target.
UpdateTarget(st, act) ==
    IF act.finished THEN [st EXCEPT !.target_finished = TRUE]
    ELSE [st EXCEPT !.target = @ + 1, !.target_finished = FALSE]

\* The harness asks for the next action only while the target is unfinished
\* and the previous WriteAction has been taken over.
HarnessIdle == agent = "ready" /\ action.kind # "write"

\* ------------------------------------------------ StreamSpeechASRAgent

\* Variant of ResetSession: asr_text is left as it was.
ResetSessionKeepsText(s) ==
    [src_seg_num |-> 0,
     tgt_subwords_indices |-> None,
     src_ctc_indices |-> None,
     src_ctc_prefix_length |-> 0,
     tgt_ctc_prefix_length |-> 0,
     tgt_units_indices |-> None,
     prev_output_tokens_mt |-> None,
     tgt_text |-> <<>>,
     asr_text |-> s.asr_text,
     mt_decoder_out |-> None,
     unit |-> None,
     wav |-> <<>>,
     post_transcription |-> <<>>,
     unfinished_wav |-> None]

\* The assignments of reset(), lines 295-308.
ResetSession(s) ==
    [src_seg_num |-> 0,
     tgt_subwords_indices |-> None,
     src_ctc_indices |-> None,
     src_ctc_prefix_length |-> 0,
     tgt_ctc_prefix_length |-> 0,
     tgt_units_indices |-> None,
     prev_output_tokens_mt |-> None,
     tgt_text |-> <<>>,
     asr_text |-> <<>>,
     mt_decoder_out |-> None,
     unit |-> None,
     wav |-> <<>>,
     post_transcription |-> <<>>,
     unfinished_wav |-> None]

\* The session fields before __init__ has run reset(): none is assigned.
UnsetSession ==
    [src_seg_num |-> -1,
     tgt_subwords_indices |-> Unset,
     src_ctc_indices |-> Unset,
     src_ctc_prefix_length |-> -1,
     tgt_ctc_prefix_length |-> -1,
     tgt_units_indices |-> Unset,
     prev_output_tokens_mt |-> Unset,
     tgt_text |-> <<Unset>>,
     asr_text |-> <<Unset>>,
     mt_decoder_out |-> Unset,
     unit |-> Unset,
     wav |-> <<Unset>>,
     post_transcription |-> <<Unset>>,
     unfinished_wav |-> Unset]

\* Variant of ReleaseIncrementalStates: no try/except around the calls.
ReleaseUnguarded(mt_fails, ctc_fails) ==
    [mt |-> ~mt_fails,
     ctc |-> ~mt_fails /\ ~ctc_fails,
     raised |-> mt_fails \/ ctc_fails]

\* The try block of reset(): generator_mt.reset_incremental_states(), then
\* ctc_generator.reset_incremental_states(); any exception is swallowed.
\* mt_fails / ctc_fails: whether the respective call raises.
ReleaseIncrementalStates(mt_fails, ctc_fails) ==
    [mt |-> ~mt_fails,
     ctc |-> ~mt_fails /\ ~ctc_fails,
     raised |-> FALSE]

\* self.encoder_outs is not assigned by reset().
ResetEncoderOuts(e) == e

\* self.encoder_outs before the first policy turn: no such attribute.
NoEncoderOuts == <<>>

\* forward_encoder over all frames: the encoder output is named by the
\* number of frames it encodes.
ForwardEncoder(feature) == <<Len(feature)>>

\* Variant of StoreAsrText: the decoded text is not stored.
StoreNothing(s, text) == s

\* self.asr_text = text
StoreAsrText(s, text) == [s EXCEPT !.asr_text = text]

\* Variant of ShouldRead: the negation of source_finished is dropped.
ShouldReadWhenFinished(nframes, source_finished) ==
    nframes = 0 /\ source_finished

\* if feature.size(0) == 0 and not self.states.source_finished: ReadAction
ShouldRead(nframes, source_finished) == nframes = 0 /\ ~source_finished

\* No reset() ran: no reset_incremental_states call was made.
NoRelease == [mt |-> FALSE, ctc |-> FALSE, raised |-> FALSE]

\* The record of a call: rel is the outcome of the try block of the reset()
\* that ran in it.  sink and norm are filled in by DecodeRecord.
CallRecord(op, raised, reset, rel) ==
    [op |-> op, raised |-> raised, reset |-> reset,
     mt_reset |-> rel.mt, ctc_reset |-> rel.ctc,
     sink |-> "none", norm |-> <<>>]

\* self.quiet, set by __init__ from args.extra_output_dir.
Quiet(a) == a.extra_output_dir = None

\* if self.states.source_finished and not self.quiet: append to asr.txt
WritesSink(a, source_finished) == source_finished /\ ~Quiet(a)

\* The record of a policy call that ran the loop of lines 403-419: norm is
\* the text the loop body computed, sink what became of the append to
\* asr.txt ("none": not attempted, "appended", "failed": open or print raised).
DecodeRecord(c, norm, sink) == [c EXCEPT !.norm = norm, !.sink = sink]

ReadAction == [kind |-> "read", content |-> <<>>, finished |-> FALSE]

WriteAction(content, finished) ==
    [kind |-> "write", content |-> content, finished |-> finished]

Raised == [kind |-> "raise", content |-> <<>>, finished |-> FALSE]

NoAction == [kind |-> "none", content |-> <<>>, finished |-> FALSE]

\* No policy turn of the current utterance yet.
NoTurn ==
    [kind |-> "none", feature |-> <<>>, prev_frames |-> 0, text |-> <<>>,
     finishing |-> FALSE, ended |-> FALSE]

\* History of one utterance: the payloads written so far, the number of
\* decode turns, the text of the last decode turn, and whether every decoded
\* text extended the one before it.
EmptyHist ==
    [emitted |-> <<>>, turns |-> 0, text |-> <<>>, monotone |-> TRUE]

\* The history of the utterance the next turn belongs to.
CurHist == IF turn.ended THEN EmptyHist ELSE hist

Init ==
    /\ agent = "unconstructed"
    /\ args \in [shift_size : {SHIFT_SIZE}, window_size : WindowSizes,
                 sample_rate : SampleRates,
                 extra_output_dir : ExtraOutputDirs]
    /\ states = AgentStatesReset(NoStates)
    /\ session = UnsetSession
    /\ encoder_outs = NoEncoderOuts
    /\ action = NoAction
    /\ call = CallRecord("none", FALSE, FALSE, NoRelease)
    /\ turn = NoTurn
    /\ hist = EmptyHist
    /\ wk_states = AgentStatesReset(NoStates)
    /\ wk_action = NoAction
    /\ fx = NoExtractor

\* StreamSpeechASRAgent.__init__: builds the extractor (which asserts
\* window_size >= shift_size) and ends with self.reset().
Construct ==
    /\ agent = "unconstructed"
    /\ IF ExtractorAccepts(args)
       THEN \E mt_fails \in BOOLEAN, ctc_fails \in BOOLEAN :
              LET rel == ReleaseIncrementalStates(mt_fails, ctc_fails) IN
              /\ agent' = IF rel.raised THEN "failed" ELSE "ready"
              /\ session' = ResetSession(session)
              /\ states' = AgentStatesReset(states)
              /\ call' = CallRecord("init", rel.raised, TRUE, rel)
       ELSE /\ agent' = "failed"
            /\ call' = CallRecord("init", TRUE, FALSE, NoRelease)
            /\ UNCHANGED <<session, states>>
    /\ UNCHANGED <<args, encoder_outs, action, turn, hist, wk_vars, fx>>

\* The harness delivers a chunk (possibly empty) and the finished signal.
Push ==
    /\ HarnessIdle
    /\ ~states.source_finished
    /\ \E chunk \in ChunkSizes \cup {0}, finished \in BOOLEAN :
         /\ states.source + chunk <= MaxSamples
         /\ chunk > 0 \/ finished
         /\ states' = UpdateSource(states, chunk, finished)
    /\ call' = CallRecord("push", FALSE, FALSE, NoRelease)
    /\ UNCHANGED <<agent, args, session, encoder_outs, action, turn, hist,
                   wk_vars, fx>>

\* StreamSpeechASRAgent.reset(), called by the harness between utterances.
Reset ==
    /\ HarnessIdle
    /\ \E mt_fails \in BOOLEAN, ctc_fails \in BOOLEAN :
         LET rel == ReleaseIncrementalStates(mt_fails, ctc_fails) IN
         /\ session' = ResetSession(session)
         /\ states' = AgentStatesReset(states)
         /\ call' = CallRecord("reset", rel.raised, TRUE, rel)
    /\ encoder_outs' = ResetEncoderOuts(encoder_outs)
    /\ action' = NoAction
    /\ turn' = NoTurn
    /\ hist' = EmptyHist
    /\ UNCHANGED <<agent, args, wk_vars, fx>>

\* The number of frames the previous turn of the current utterance extracted.
PrevFrames == IF turn.ended THEN 0 ELSE Len(turn.feature)

\* The record of a policy turn: what it returned, the frames it extracted
\* (and how many the turn before it had), the text it decoded, whether the
\* source was finished on entry, and whether reset() ended the utterance.
TurnRecord(kind, feature, text, finishing, ended) ==
    [kind |-> kind, feature |-> feature, prev_frames |-> PrevFrames,
     text |-> text, finishing |-> finishing, ended |-> ended]

\* policy() when it returns at line 389.
PolicyRead(feature) ==
    /\ action' = ReadAction
    /\ call' = CallRecord("policy", FALSE, FALSE, NoRelease)
    /\ turn' = TurnRecord("read", feature, <<>>, FALSE, FALSE)
    /\ hist' = CurHist
    /\ UNCHANGED <<states, session, encoder_outs>>

\* policy() when generate raises: self.encoder_outs was assigned at line 394.
PolicyDecodeError(feature) ==
    /\ encoder_outs' = ForwardEncoder(feature)
    /\ action' = Raised
    /\ call' = CallRecord("policy", TRUE, FALSE, NoRelease)
    /\ turn' = TurnRecord("raise", feature, <<>>, states.source_finished, FALSE)
    /\ hist' = CurHist
    /\ UNCHANGED <<states, session>>

\* The history after a decode turn that wrote new_text.
HistAfterWrite(h, text, new_text) ==
    [emitted |-> h.emitted \o new_text,
     turns |-> h.turns + 1,
     text |-> text,
     monotone |-> h.monotone /\ IsPrefix(h.text, text)]

\* policy() when the append to asr.txt raises (lines 418-419, outside any
\* try): the exception leaves policy() before line 421.
PolicySinkError(feature, tmp) ==
    /\ encoder_outs' = ForwardEncoder(feature)
    /\ action' = Raised
    /\ call' = DecodeRecord(CallRecord("policy", TRUE, FALSE, NoRelease),
                            Normalize(Tokens(tmp)), "failed")
    /\ turn' = TurnRecord("raise", feature, <<>>, states.source_finished, FALSE)
    /\ hist' = CurHist
    /\ UNCHANGED <<states, session>>

\* policy() from line 391 on, the source not finished: lines 421-433.
PolicyWrite(feature, tmp) ==
    LET text == Join(Tokens(tmp))
        new_text == NewText(text, session.asr_text)
    IN  /\ CurHist.turns < MaxTurns
        /\ encoder_outs' = ForwardEncoder(feature)
        /\ session' = StoreAsrText(session, text)
        /\ action' = WriteAction(new_text, states.target_finished)
        /\ call' = DecodeRecord(CallRecord("policy", FALSE, FALSE, NoRelease),
                                Normalize(Tokens(tmp)), "none")
        /\ turn' = TurnRecord("write", feature, text, FALSE, FALSE)
        /\ hist' = HistAfterWrite(CurHist, text, new_text)
        /\ UNCHANGED states

\* policy() from line 391 on, the source finished: target_finished is set,
\* reset() runs, and the WriteAction is built after it from
\* self.states.target_finished.
PolicyFinish(feature, tmp, mt_fails, ctc_fails) ==
    LET text == Join(Tokens(tmp))
        new_text == NewText(text, session.asr_text)
        rel == ReleaseIncrementalStates(mt_fails, ctc_fails)
        st1 == [states EXCEPT !.target_finished = TRUE]
        st2 == AgentStatesReset(st1)
    IN  /\ encoder_outs' = ResetEncoderOuts(ForwardEncoder(feature))
        /\ session' = ResetSession(StoreAsrText(session, text))
        /\ states' = st2
        /\ action' = IF rel.raised THEN Raised
                     ELSE WriteAction(new_text, st2.target_finished)
        /\ call' = DecodeRecord(CallRecord("policy", rel.raised, TRUE, rel),
                                Normalize(Tokens(tmp)),
                                IF WritesSink(args, states.source_finished)
                                THEN "appended" ELSE "none")
        /\ turn' = TurnRecord(IF rel.raised THEN "raise" ELSE "write",
                              feature, text, TRUE, TRUE)
        /\ hist' = HistAfterWrite(CurHist, text, new_text)

\* StreamSpeechASRAgent.policy().
Policy ==
    /\ HarnessIdle
    /\ ~states.target_finished
    /\ LET feature == Extract(args, states.source) IN
       IF ShouldRead(Len(feature), states.source_finished)
       THEN PolicyRead(feature)
       ELSE \E decode_fails \in BOOLEAN :
              IF decode_fails THEN PolicyDecodeError(feature)
              ELSE \E tmp \in DecoderResults :
                     IF ~states.source_finished THEN PolicyWrite(feature, tmp)
                     ELSE \E sink_fails \in BOOLEAN :
                            IF sink_fails /\ WritesSink(args, states.source_finished)
                            THEN PolicySinkError(feature, tmp)
                            ELSE \E mt_fails \in BOOLEAN, ctc_fails \in BOOLEAN :
                                   PolicyFinish(feature, tmp, mt_fails, ctc_fails)
    /\ UNCHANGED <<agent, args, wk_vars, fx>>

\* The harness takes the WriteAction over: AgentStates.update_target.  The
\* history of an utterance that has ended is dropped here.
Deliver ==
    /\ agent = "ready"
    /\ action.kind = "write"
    /\ states' = UpdateTarget(states, action)
    /\ action' = NoAction
    /\ call' = CallRecord("deliver", FALSE, FALSE, NoRelease)
    /\ turn' = IF turn.ended THEN NoTurn ELSE turn
    /\ hist' = CurHist
    /\ UNCHANGED <<agent, args, session, encoder_outs, wk_vars, fx>>

Next == Construct \/ Push \/ Policy \/ Deliver \/ Reset

Spec == Init /\ [][Next]_vars

SpecExtractor == Init /\ [][NextExtractor]_vars

\* -------------------------------------------------- DummyWaitkTextAgent

vocab ==
    {"A", "B", "C", "D", "E", "F", "G", "H", "I", "J", "K", "L", "M", "N",
     "O", "P", "Q", "R", "S", "T", "U", "V", "W", "X", "Y", "Z"}

\* lagging = len(self.states.source) - len(self.states.target)
Lagging(st) == st.source - st.target

\* Variant of WkShouldWrite: the lag threshold is off by one.
WkShouldWriteEarly(lagging, source_finished) ==
    lagging >= waitk - 1 \/ source_finished

\* Variant of WkShouldWrite: source_finished is not looked at.
WkShouldWriteOnLagOnly(lagging, source_finished) == lagging >= waitk

\* if lagging >= self.waitk or self.states.source_finished
WkShouldWrite(lagging, source_finished) == lagging >= waitk \/ source_finished

\* Variant of WkFinished: the threshold is waitk.
WkFinishedAtWaitk(lagging) == lagging <= waitk

\* finished=(lagging <= 1)
WkFinished(lagging) == lagging <= 1

\* The harness delivers one source token (or none) and the finished signal.
WkPush ==
    /\ wk_action.kind # "write"
    /\ ~wk_states.source_finished
    /\ \E chunk \in {0, 1}, finished \in BOOLEAN :
         /\ wk_states.source + chunk <= MaxWaitkSource
         /\ chunk > 0 \/ finished
         /\ wk_states' = UpdateSource(wk_states, chunk, finished)
    /\ wk_action' = NoAction
    /\ UNCHANGED <<asr_vars, fx>>

\* DummyWaitkTextAgent.policy().
WkPolicy ==
    /\ wk_action.kind # "write"
    /\ ~wk_states.target_finished
    /\ LET lagging == Lagging(wk_states) IN
       IF WkShouldWrite(lagging, wk_states.source_finished)
       THEN \E prediction \in vocab :
              wk_action' = WriteAction(<<prediction>>, WkFinished(lagging))
       ELSE wk_action' = ReadAction
    /\ UNCHANGED <<wk_states, asr_vars, fx>>

\* The harness takes the WriteAction over: AgentStates.update_target.
WkDeliver ==
    /\ wk_action.kind = "write"
    /\ wk_states' = UpdateTarget(wk_states, wk_action)
    /\ wk_action' = NoAction
    /\ UNCHANGED <<asr_vars, fx>>

NextWaitk == WkPush \/ WkPolicy \/ WkDeliver

SpecWaitk == Init /\ [][NextWaitk]_vars

\* The harness keeps invoking policy() and taking its actions over.
SpecWaitkFair ==
    SpecWaitk /\ WF_vars(WkPolicy) /\ WF_vars(WkDeliver)

\* ------------------------------------------------------------ both agents

\* The DummyWaitkTextAgent has not been driven yet.
WkUntouched == wk_states = AgentStatesReset(NoStates) /\ wk_action = NoAction

\* The two agents are separate programs: a run drives one of them.
NextAgents ==
    \/ WkUntouched /\ Next
    \/ agent = "unconstructed" /\ NextWaitk

SpecAgents == Init /\ [][NextAgents]_vars

\* ------------------------------------------------------------- properties

\* The state right after policy() has returned (not raised).
PolicyReturned == call.op = "policy" /\ ~call.raised

\* The values reset() leaves in the session fields.
EmptySession ==
    [src_seg_num |-> 0,
     tgt_subwords_indices |-> "None",
     src_ctc_indices |-> "None",
     src_ctc_prefix_length |-> 0,
     tgt_ctc_prefix_length |-> 0,
     tgt_units_indices |-> "None",
     prev_output_tokens_mt |-> "None",
     tgt_text |-> <<>>,
     asr_text |-> <<>>,
     mt_decoder_out |-> "None",
     unit |-> "None",
     wav |-> <<>>,
     post_transcription |-> <<>>,
     unfinished_wav |-> "None"]

\* The values states.reset() leaves in the states.
EmptyStates ==
    [source |-> 0, target |-> 0, source_finished |-> FALSE,
     target_finished |-> FALSE]

\* C1: a policy turn entered with source_finished = true returns a
\* WriteAction whose finished flag is true, whatever the decoder returned.
C1_FinishingTurnWritesFinished ==
    (PolicyReturned /\ turn.finishing) =>
        (action.kind = "write" /\ action.finished)

C3_NoNewFramesReads ==
    [][(/\ call'.op = "policy"
        /\ ~call'.raised
        /\ turn.kind # "raise"
        /\ ~states.source_finished
        /\ Len(Extract(args, states.source)) <= PrevFrames)
       => action'.kind = "read"]_vars

C5_SameTextEmptyPayload ==
    [][(/\ call'.op = "policy"
        /\ action'.kind = "write"
        /\ ~turn'.finishing
        /\ turn.kind = "write"
        /\ ~turn.ended
        /\ turn'.text = turn.text)
       => action'.content = <<>>]_vars

\* C5 witness: the second decode turn of an utterance decoded the same
\* non-empty text as the first and wrote the empty payload.
C5_Witness ==
    /\ PolicyReturned
    /\ action.kind = "write"
    /\ action.content = <<>>
    /\ ~turn.finishing
    /\ hist.turns = 2
    /\ turn.text # <<>>
    /\ hist.emitted = turn.text

\* C6: when DummyWaitkTextAgent.policy() returns with the lag below waitk and
\* the source not finished, the action is a ReadAction, never a WriteAction.
C6_NoWriteBelowWaitk ==
    (/\ wk_action.kind # "none"
     /\ Lagging(wk_states) < waitk
     /\ ~wk_states.source_finished)
    => wk_action.kind = "read"

\* C6 witness: the policy returned READ with a lag of waitk - 1.
C6_Witness ==
    /\ wk_action.kind = "read"
    /\ Lagging(wk_states) = waitk - 1
    /\ wk_states.target > 0
    /\ ~wk_states.source_finished

\* C7: the frames a policy turn extracts from the grown source have the frames
\* of the previous turn of the utterance as a prefix, their number never
\* decreases, and the turn after the last chunk extracts exactly the frames of
\* one call on the whole source.
C7_FramesOfPrefixesArePrefixes ==
    [][call'.op = "policy"
       => (/\ ~turn.ended => IsPrefix(turn.feature, turn'.feature)
           /\ Len(turn'.feature) >= PrevFrames
           /\ turn'.finishing =>
                turn'.feature = Extract(args, states.source))]_vars

\* C7 witness: a turn extracted two frames where the turn before it had one.
C7_Witness ==
    /\ call.op = "policy"
    /\ turn.prev_frames = 1
    /\ Len(turn.feature) = 2

\* C8: after reset() has returned, every session field and the states have
\* the same fixed values, and a second reset() would leave them as they are.
C8_ResetIsCanonicalAndIdempotent ==
    call.reset =>
        /\ session = EmptySession
        /\ states = EmptyStates
        /\ ResetSession(session) = session
        /\ AgentStatesReset(states) = states

\* C8 witness: reset() has returned on a session that held decoded text and
\* a finished source.
C8_Witness ==
    /\ call.reset
    /\ call.op = "policy"
    /\ turn.finishing
    /\ Len(turn.text) > 0
    /\ session.asr_text = <<>>

\* C9: when releasing the incremental state of generator_mt or ctc_generator
\* fails inside reset(), reset() still returns normally and the session
\* fields hold their empty initial values.
C9_ResetSwallowsReleaseFailure ==
    (call.reset /\ ~(call.mt_reset /\ call.ctc_reset)) =>
        /\ ~call.raised
        /\ agent = "ready"
        /\ session = EmptySession

\* C9 witness: reset() has returned although generator_mt's release failed.
C9_Witness ==
    /\ call.op = "reset"
    /\ call.reset
    /\ ~call.mt_reset
    /\ ~call.raised

\* C10: a policy turn whose decode call fails leaves the session state as it
\* was before the turn: session fields, states and cached encoder output.
C10_FailedTurnLeavesStateUnchanged ==
    [][(call'.op = "policy" /\ call'.raised)
       => (/\ session' = session
           /\ states' = states
           /\ encoder_outs' = encoder_outs)]_vars

\* C11: when the append to asr.txt fails on a finishing turn, policy() still
\* returns its WriteAction and has run reset().
C11_SinkFailureKeepsOutcome ==
    (call.op = "policy" /\ call.sink = "failed") =>
        (action.kind = "write" /\ call.reset /\ session = EmptySession)

\* C12: construction with window_size < shift_size fails, and neither a
\* constructed agent nor a policy turn exists with window_size < shift_size.
C12_WindowBelowShiftFailsConstruction ==
    /\ (agent # "unconstructed" /\ args.window_size < args.shift_size)
           => agent = "failed"
    /\ (agent = "ready" \/ call.op = "policy")
           => args.window_size >= args.shift_size

\* C12 witness: __init__ has raised on a window shorter than the shift.
C12_Witness ==
    /\ agent = "failed"
    /\ call.op = "init"
    /\ call.raised
    /\ args.window_size < args.shift_size

\* The number of samples in a range of positions.
RangeLen(r) == r.to - r.from

C14_KeptSamplesFormula ==
    (fx.out.called /\ fx.out.num_frames >= 1) =>
        /\ fx.out.samples =
             [from |-> 0,
              to |-> fx.out.num_frames * NumSamplesPerShift(fx.args)
                     + (NumSamplesPerWindow(fx.args)
                        - NumSamplesPerShift(fx.args))]
        /\ fx.out.samples.to <= fx.samples
        /\ fx.samples - fx.out.samples.to < NumSamplesPerShift(fx.args)

C16_ResetReleasesBothGenerators ==
    (call.reset /\ ~call.raised) => (call.mt_reset \/ call.ctc_reset)

\* C17: after reset() has returned, on its own or on the finishing turn of
\* policy(), no encoder output is cached.
C17_ResetDiscardsEncoderOuts ==
    (call.reset /\ ~call.raised) => encoder_outs = NoEncoderOuts

\* The boundary, unknown-token and sub-word markers of lines 410-414.
Markers ==
    {<<"<", "s", ">">>, <<"<", "/", "s", ">">>, <<"<", "u", "n", "k", ">">>,
     <<"u2581">>}

\* The text contains one of the markers.
HasMarker(text) ==
    \E m \in Markers : \E i \in 1..Len(text) :
        /\ i + Len(m) - 1 <= Len(text)
        /\ SubSeq(text, i, i + Len(m) - 1) = m

\* C18: the text a decode turn cuts its payload from and stores as asr_text
\* is the normalized text of the loop (lines 409-416), and the payload of
\* the WriteAction contains no marker.
C18_PayloadIsNormalizedText ==
    (PolicyReturned /\ action.kind = "write") =>
        /\ turn.text = call.norm
        /\ ~turn.ended => session.asr_text = call.norm
        /\ ~HasMarker(action.content)

\* C19: in both agents a WriteAction whose finished flag is true is returned
\* only by a policy turn entered with source_finished = true.
C19_FinishedOnlyWhenSourceFinished ==
    /\ (wk_action.kind = "write" /\ wk_action.finished)
          => wk_states.source_finished
    /\ (PolicyReturned /\ action.kind = "write" /\ action.finished)
          => turn.finishing

\* C19 witness: DummyWaitkTextAgent has returned its finished WriteAction on
\* a finished source of waitk tokens, after two unfinished ones.
C19_Witness ==
    /\ wk_action.kind = "write"
    /\ wk_action.finished
    /\ wk_states.source_finished
    /\ wk_states.source = waitk
    /\ wk_states.target = waitk - 1

\* C20: once source_finished is true, DummyWaitkTextAgent.policy() returns no
\* ReadAction, every unfinished WriteAction the harness takes over lowers the
\* lag by one, and a WriteAction with finished = true is eventually returned.
C20_FinishedSourceDrainsToFinished ==
    /\ []((wk_states.source_finished /\ ~wk_states.target_finished)
             => wk_action.kind # "read")
    /\ [][(/\ wk_states.source_finished
           /\ wk_action.kind = "write"
           /\ ~wk_action.finished
           /\ wk_states' # wk_states)
          => Lagging(wk_states') = Lagging(wk_states) - 1]_vars
    /\ (wk_states.source_finished /\ ~wk_states.target_finished)
          ~> (wk_action.kind = "write" /\ wk_action.finished)

\* C20 witness: the finished WriteAction has been taken over on a finished
\* source of more than waitk tokens, the lag having come down to one.
C20_Witness ==
    /\ wk_states.source_finished
    /\ wk_states.target_finished
    /\ wk_states.source > waitk
    /\ Lagging(wk_states) = 1
    /\ wk_action = NoAction

====
